---- MODULE Spec2Model ----
(***************************************************************************)
(* A model of src/src/EventEmitter.js: one EventEmitter instance, its      *)
(* this[events] object, its maxListeners value and the emit passes that    *)
(* are in flight.  Listeners are arbitrary user code: while a listener     *)
(* runs (it is the current entry of the top frame of `stack`) it may call  *)
(* any method of the instance, return, or throw.                           *)
(***************************************************************************)
EXTENDS Integers, Sequences, FiniteSets, TLC

\* ------------------------------------------------------------------ bounds

\* Registrations (successful addListener/once calls) in one behaviour.
MaxRegs == 3
\* emit calls in flight at once (the nesting depth of reentrant emits).
MaxDepth == 2
\* Instances constructed after the first one.
MaxInstances == 2

\* ------------------------------------------------------------------ inputs

\* Two symbol keys of the same description, Symbol('s') twice; every other
\* key is a string.
Sym == "Symbol(s)"
Sym2 == "Symbol(s) #2"
Symbols == {Sym, Sym2}
\* "toString" and "hasOwnProperty" are members of Object.prototype, which
\* the {} of this[events] inherits from.
Keys == {"a", "b", "42", "toString", "hasOwnProperty", Sym, Sym2}
InheritedNames == {"toString", "hasOwnProperty"}
\* The length of the inherited functions: the number of their parameters.
InheritedLength == [k \in InheritedNames |-> IF k = "toString" THEN 0 ELSE 1]
\* A value that is no key: the number 42.  As a property name it is "42".
TheNumber == "42 (number)"
NotKeys == {TheNumber}
\* A conversion to a property key that turns a symbol into its description.
ToPropertyKeyByDescription(value) ==
  IF value = TheNumber THEN "42"
  ELSE IF value \in Symbols THEN Sym
  ELSE value

\* this[events][event] converts event to a property key: a symbol stays,
\* any other value becomes a string.
ToPropertyKey(value) == IF value = TheNumber THEN "42" ELSE value
\* removeAllListeners called without an argument.
NoArgument == "undefined"

Callbacks == {"f", "g"}
\* A listener argument that is not a function.
NotAFunction == "{}"
ListenerArgs == Callbacks \cup {NotAFunction}
Types == {"on", "once"}
\* The argument lists emit is called with.
Args == {1, 2}

\* What Number(n) makes of the argument of setMaxListeners and of the value
\* assigned to defaultMaxListeners: the integer v, the number v + 1/2, or
\* NaN (Number('foobar'), Number({})).
NaN == [nan |-> TRUE, val |-> 0, half |-> FALSE]
Num(v) == [nan |-> FALSE, val |-> v, half |-> FALSE]
Half(v) == [nan |-> FALSE, val |-> v, half |-> TRUE]
MaxInputs == {Num(0 - 1), Num(0), Num(1), Half(0 - 1), Half(1), NaN}
\* No key and no listener: the arguments a call does not take.
None == "-"

\* static get defaultMaxListeners: 10 unless assigned.
defaultMaxListeners == 10

\* ------------------------------------------------------------------ values

\* What this[events][key] can hold.  "absent": no own property.
Absent == [tag |-> "absent", recs |-> <<>>]
Undefined == [tag |-> "undefined", recs |-> <<>>]
InheritedFunction == [tag |-> "function", recs |-> <<>>]
Array(s) == [tag |-> "array", recs |-> s]

\* this[events][key]: the own property, else what Object.prototype gives.
Get(ev, k) ==
  LET p == ToPropertyKey(k)
  IN  IF ev[p].tag = "absent"
      THEN IF p \in InheritedNames THEN InheritedFunction ELSE Undefined
      ELSE ev[p]

\* The string keys that are array indices: Object.keys lists them first.
IndexKeys == {"42"}

\* Object.keys order of this[events] when key k gets a value: a new own
\* string key goes behind the others, an array index in front of them; a
\* symbol is never listed.
OwnKeyAdded(ord, ev, k) ==
  LET p == ToPropertyKey(k)
  IN  IF ev[p].tag = "absent" /\ p \notin Symbols
      THEN IF p \in IndexKeys THEN <<p>> \o ord ELSE Append(ord, p)
      ELSE ord

\* keysOfDefinedProperties(this[events]): the keys Object.keys gives whose
\* value is not undefined.
keysOfDefinedProperties(ev, ord) ==
  SelectSeq(ord, LAMBDA k : ev[k].tag # "undefined")

eventNames(ev, ord) == keysOfDefinedProperties(ev, ord)

\* ---------------------------------------------------------------- helpers

\* A validation that lets every value pass.
validateAnything(value) == TRUE

validateEventArgument(value) == value \in Keys
validateListenerArgument(value) == value \in Callbacks

\* findIndex scanning from the end: the last index that holds `listener`.
findLastIndex(collection, listener) ==
  IF \E i \in 1..Len(collection) : collection[i].listener = listener
  THEN CHOOSE i \in 1..Len(collection) :
         /\ collection[i].listener = listener
         /\ \A j \in (i + 1)..Len(collection) : collection[j].listener # listener
  ELSE 0

\* findIndex: the first index whose record holds `listener`; 0 stands for
\* the code's -1 (sequences are 1-based here).
findIndex(collection, listener) ==
  IF \E i \in 1..Len(collection) : collection[i].listener = listener
  THEN CHOOSE i \in 1..Len(collection) :
         /\ collection[i].listener = listener
         /\ \A j \in 1..(i - 1) : collection[j].listener # listener
  ELSE 0

\* Array.prototype.splice(index, 1)
splice(s, index) == SubSeq(s, 1, index - 1) \o SubSeq(s, index + 1, Len(s))

\* Boolean(this[events][event]): arrays and functions are truthy.
hasListenersForEvent(ev, event) == Get(ev, event).tag \in {"array", "function"}

\* (this[events][event] || []).length; a function's length is the number
\* of its parameters, 0 for Object.prototype.toString and 1 for
\* Object.prototype.hasOwnProperty.
listenerCount(ev, event) ==
  IF Get(ev, event).tag = "array" THEN Len(Get(ev, event).recs)
  ELSE IF Get(ev, event).tag = "function"
  THEN InheritedLength[ToPropertyKey(event)]
  ELSE 0

\* (this[events][event] || []).map(getListenerProperty); a function has no
\* map, so the call throws there: "TypeError" stands for the throw.
listeners(ev, event) ==
  IF Get(ev, event).tag = "function" THEN <<"TypeError">>
  ELSE [i \in 1..Len(Get(ev, event).recs) |-> Get(ev, event).recs[i].listener]

\* Number(n) || 0 without the Math.max.
CoerceUnclamped(n) == IF n.nan THEN Num(0) ELSE n

\* Math.max(Number(n) || 0, 0), n being what Number made of the argument:
\* NaN and 0 are falsy and become 0, a number below 0 gives 0, any other
\* number is kept as it is.
Coerce(n) == IF n.nan \/ n.val < 0 THEN Num(0) ELSE n

\* The body of removeListener on a given this[events]: whether it threw and
\* the this[events] it leaves.
removeListenerOn(ev, event, listener) ==
  IF ~validateEventArgument(event)
  THEN [threw |-> TRUE, events |-> ev]
  ELSE IF ~hasListenersForEvent(ev, event) \/ listener \notin Callbacks
  THEN [threw |-> FALSE, events |-> ev]
  ELSE IF Get(ev, event).tag = "function"
  THEN [threw |-> TRUE, events |-> ev]
  ELSE LET ls == Get(ev, event).recs
           index == findIndex(ls, listener)
           rest == splice(ls, index)
       IN  IF index # 0
           THEN [threw |-> FALSE,
                 events |-> [ev EXCEPT ![ToPropertyKey(event)] =
                               IF Len(rest) = 0 THEN Undefined ELSE Array(rest)]]
           ELSE [threw |-> FALSE, events |-> ev]

\* -------------------------------------------------------------------- state

VARIABLES
  events,        \* this[events]: key -> value
  order,         \* Object.keys(this[events])
  maxListeners,  \* this[maxListeners]
  maxListenersWarnedOnce,
  warnings,      \* the log.warn calls made: <<event, count>> each
  stack,         \* the emit calls in flight, outermost first
  nextId,        \* identity of the next record object created
  fired,         \* per one-shot record: how often it was invoked (2: more
                 \* than once)
  ret,           \* how the last call ended, "running" inside a listener
  last,          \* the last call made, where calls are logged
  classMaxListeners,  \* EventEmitter[maxListeners], the static property
  constructed    \* this[maxListeners] of the instances constructed later

vars == <<events, order, maxListeners, maxListenersWarnedOnce, warnings,
          stack, nextId, fired, ret, last, classMaxListeners, constructed>>

\* EventEmitter[maxListeners] before anything is assigned: undefined.
Unassigned == [assigned |-> FALSE, n |-> Num(0)]
Assigned(n) == [assigned |-> TRUE, n |-> n]

\* static get defaultMaxListeners, reading the static property.
getDefaultMaxListeners(static) ==
  IF static.assigned THEN static.n ELSE Num(defaultMaxListeners)

\* A constructor that takes the constant instead of reading the getter.
constructorMaxListenersFixed(static) == Num(defaultMaxListeners)

\* The constructor's value for this[maxListeners].
constructorMaxListeners(static) == getDefaultMaxListeners(static)

Init ==
  /\ events = [k \in Keys |-> Absent]
  /\ order = <<>>
  /\ classMaxListeners = Unassigned
  /\ constructed = <<>>
  /\ maxListeners = constructorMaxListeners(classMaxListeners)
  /\ maxListenersWarnedOnce = FALSE
  /\ warnings = <<>>
  /\ stack = <<>>
  /\ nextId = 1
  /\ fired = [i \in 1..MaxRegs |-> 0]
  /\ ret = "none"
  /\ last = [op |-> "none", event |-> None, listener |-> None, n |-> None]

\* ------------------------------------------------------------------- emit

\* [...this[events][event]]: a copy, which later push and splice calls on
\* the live array do not reach.
Snapshot(recs) == recs

\* The entry forEach hands to the callback next, and whether there is one.
EntryAt(fr, ev) == fr.snap[fr.i]
HasEntry(fr, ev) == fr.i <= Len(fr.snap)

\* listener.call(this, ...args): the arguments the listener receives.
PassedArgs(fr) == fr.args

\* The frames left when the innermost emit ended; the listener that called
\* it, if one did, goes on running.
Pop(stk) == SubSeq(stk, 1, Len(stk) - 1)

\* A record was invoked once more; only one-shot records are counted.
Bump(fd, e) ==
  IF e.type = "once"
  THEN [fd EXCEPT ![e.id] = IF @ = 0 THEN 1 ELSE 2]
  ELSE fd

\* One turn of the forEach callback of emit for the entry at the top
\* frame's index: a one-shot entry is removed with removeListener, then the
\* listener is called and runs.  With no entry left emit returns this.
forEachStep(ev, stk, fd) ==
  LET d == Len(stk)
      fr == stk[d]
  IN  IF ~HasEntry(fr, ev)
      THEN [events |-> ev, stack |-> Pop(stk), fired |-> fd, ret |-> "self"]
      ELSE LET e == EntryAt(fr, ev)
               rm == IF e.type = "once"
                     THEN removeListenerOn(ev, fr.event, e.listener)
                     ELSE [threw |-> FALSE, events |-> ev]
           IN  IF rm.threw
               THEN [events |-> ev, stack |-> Pop(stk), fired |-> fd,
                     ret |-> "TypeError"]
               ELSE [events |-> rm.events,
                     stack |-> [stk EXCEPT ![d].calls =
                                  Append(@, [id |-> e.id,
                                             listener |-> e.listener,
                                             args |-> PassedArgs(fr)])],
                     fired |-> Bump(fd, e),
                     ret |-> "running"]

NewFrame(ev, event, args) ==
  [event |-> event, args |-> args,
   snap |-> Snapshot(Get(ev, event).recs),
   i |-> 1,
   \* history: the live sequence when emit was called, and the calls of
   \* listeners made so far
   live0 |-> Get(ev, event).recs,
   calls |-> <<>>]

emit(event, args) ==
  /\ UNCHANGED <<order, maxListeners, maxListenersWarnedOnce, warnings, nextId>>
  /\ IF ~hasListenersForEvent(events, event)
     THEN /\ ret' = "self"
          /\ UNCHANGED <<events, stack, fired>>
     ELSE IF Get(events, event).tag = "function"
     THEN \* [...fn]: a function is not iterable
          /\ ret' = "TypeError"
          /\ UNCHANGED <<events, stack, fired>>
     ELSE /\ LET r == forEachStep(events,
                                  Append(stack, NewFrame(events, event, args)),
                                  fired)
             IN  /\ events' = r.events
                 /\ stack' = r.stack
                 /\ fired' = r.fired
                 /\ ret' = r.ret

\* The running listener returns; forEach goes on to the next entry.
ListenerReturn ==
  /\ stack # <<>>
  /\ UNCHANGED <<order, maxListeners, maxListenersWarnedOnce, warnings, nextId>>
  /\ LET d == Len(stack)
         r == forEachStep(events, [stack EXCEPT ![d].i = @ + 1], fired)
     IN  /\ events' = r.events
         /\ stack' = r.stack
         /\ fired' = r.fired
         /\ ret' = r.ret

\* The running listener throws; emit catches nothing, so its pass ends and
\* the exception reaches the caller of emit.
ListenerThrow ==
  /\ stack # <<>>
  /\ stack' = Pop(stack)
  /\ ret' = "ListenerFailure"
  /\ UNCHANGED <<events, order, maxListeners, maxListenersWarnedOnce,
                 warnings, nextId, fired>>

\* ------------------------------------------------------------ registration

\* listeners.push({ type, listener })
Push(recs, rec) == Append(recs, rec)

\* The warning condition without the warned-once flag.
ShouldWarnEveryTime(len, max, warned) == len > max

\* listeners.length > this[maxListeners] && !this.maxListenersWarnedOnce
ShouldWarn(len, max, warned) == len > max /\ ~warned

addListener(event, listener, type) ==
  /\ UNCHANGED <<maxListeners, stack, fired>>
  /\ IF ~validateEventArgument(event) \/ ~validateListenerArgument(listener)
     THEN /\ ret' = "TypeError"
          /\ UNCHANGED <<events, order, maxListenersWarnedOnce, warnings, nextId>>
     ELSE IF Get(events, event).tag = "function"
     THEN \* hasListenersForEvent is true, and a function has no push
          /\ ret' = "TypeError"
          /\ UNCHANGED <<events, order, maxListenersWarnedOnce, warnings, nextId>>
     ELSE /\ nextId <= MaxRegs
          /\ LET old == IF hasListenersForEvent(events, event)
                        THEN Get(events, event).recs ELSE <<>>
                 new == Push(old, [id |-> nextId, type |-> type,
                                   listener |-> listener])
                 \* a length exceeds v + 1/2 exactly when it exceeds v
                 warn == ShouldWarn(Len(new), maxListeners.val,
                                    maxListenersWarnedOnce)
             IN  /\ events' = [events EXCEPT ![ToPropertyKey(event)] = Array(new)]
                 /\ order' = OwnKeyAdded(order, events, event)
                 /\ nextId' = nextId + 1
                 /\ maxListenersWarnedOnce' = (maxListenersWarnedOnce \/ warn)
                 /\ warnings' = IF warn
                                THEN Append(warnings, <<event, Len(new)>>)
                                ELSE warnings
                 /\ ret' = "self"

once(event, listener) == addListener(event, listener, "once")

removeListener(event, listener) ==
  /\ LET r == removeListenerOn(events, event, listener)
     IN  /\ events' = r.events
         /\ ret' = IF r.threw THEN "TypeError" ELSE "self"
  /\ UNCHANGED <<order, maxListeners, maxListenersWarnedOnce, warnings,
                 stack, nextId, fired>>

removeAllListeners(event) ==
  /\ IF event # NoArgument
     THEN /\ events' = [events EXCEPT ![ToPropertyKey(event)] = Undefined]
          /\ order' = OwnKeyAdded(order, events, event)
     ELSE /\ events' = [k \in Keys |-> Absent]
          /\ order' = <<>>
  /\ ret' = "self"
  /\ UNCHANGED <<maxListeners, maxListenersWarnedOnce, warnings, stack,
                 nextId, fired>>

setMaxListeners(n) ==
  /\ maxListeners' = Coerce(n)
  /\ ret' = "self"
  /\ UNCHANGED <<events, order, maxListenersWarnedOnce, warnings, stack,
                 nextId, fired>>

\* ------------------------------------------------------------ specification

\* An emit that starts a pass keeps the nesting of passes below `bound`.
Within(bound, event) ==
  (Get(events, event).tag = "array") => Len(stack) < bound

\* The call log.
Logged(op, event, listener) ==
  /\ last' = [op |-> op, event |-> event, listener |-> listener, n |-> None]
  /\ UNCHANGED <<classMaxListeners, constructed>>

\* The instance in use: every method, called by the program or by the
\* listener that is running.  No call log is kept.
EmitKeys == {"a", "toString"}
EmitArgs == {1}

Unlogged == UNCHANGED <<last, classMaxListeners, constructed>>

Next ==
  \/ \E k \in EmitKeys, l \in Callbacks : addListener(k, l, "on") /\ Unlogged
  \/ \E k \in EmitKeys, l \in Callbacks : once(k, l) /\ Unlogged
  \/ \E k \in EmitKeys, l \in Callbacks : removeListener(k, l) /\ Unlogged
  \/ \E k \in EmitKeys \cup {NoArgument} : removeAllListeners(k) /\ Unlogged
  \/ \E k \in EmitKeys, a \in EmitArgs :
       Within(MaxDepth, k) /\ emit(k, a) /\ Unlogged
  \/ ListenerReturn /\ Unlogged
  \/ ListenerThrow /\ Unlogged

Spec == Init /\ [][Next]_vars

\* The registry calls alone, on a symbol key and an inherited name, with
\* listener arguments that are no functions and with setMaxListeners, each
\* call logged; no emit is made.
CallKeys == {Sym, "toString"}
CallMax == {Num(1)}

NextCalls ==
  \/ \E k \in CallKeys, l \in ListenerArgs :
       addListener(k, l, "on") /\ Logged("on", k, l)
  \/ \E k \in CallKeys, l \in ListenerArgs :
       once(k, l) /\ Logged("once", k, l)
  \/ \E k \in CallKeys, l \in ListenerArgs :
       removeListener(k, l) /\ Logged("removeListener", k, l)
  \/ \E k \in CallKeys \cup {NoArgument} :
       removeAllListeners(k) /\ Logged("removeAllListeners", k, None)
  \/ \E n \in CallMax :
       setMaxListeners(n) /\ Logged("setMaxListeners", None, None)

SpecCalls == Init /\ [][NextCalls]_vars

\* A call of setMaxListeners or an assignment to defaultMaxListeners, logged
\* with its argument.
LoggedNumber(op, n) ==
  last' = [op |-> op, event |-> None, listener |-> None, n |-> n]

\* The registry calls on two string keys that name nothing inherited, with
\* arguments that are no keys and no functions, and with setMaxListeners
\* lowering the limit to 1 and (from a negative argument) to 0.
NameKeys == {"a", "b"}
NameListeners == {"f", NotAFunction}
NameMax == {Num(0 - 1), Num(1)}

NextNames ==
  \/ \E k \in NameKeys \cup NotKeys, l \in NameListeners :
       addListener(k, l, "on") /\ Logged("on", k, l)
  \/ \E k \in NameKeys \cup NotKeys, l \in NameListeners :
       once(k, l) /\ Logged("once", k, l)
  \/ \E k \in NameKeys, l \in NameListeners :
       removeListener(k, l) /\ Logged("removeListener", k, l)
  \/ \E k \in NameKeys \cup {NoArgument} :
       removeAllListeners(k) /\ Logged("removeAllListeners", k, None)
  \/ \E n \in NameMax :
       /\ setMaxListeners(n)
       /\ LoggedNumber("setMaxListeners", n)
       /\ UNCHANGED <<classMaxListeners, constructed>>

SpecNames == Init /\ [][NextNames]_vars

\* static set defaultMaxListeners(n)
setDefaultMaxListeners(n) ==
  /\ classMaxListeners' = Assigned(Coerce(n))
  /\ ret' = "assigned"
  /\ UNCHANGED <<events, order, maxListeners, maxListenersWarnedOnce,
                 warnings, stack, nextId, fired, constructed>>

\* new EventEmitter(): one more instance; of it the model keeps
\* this[maxListeners].
construct ==
  /\ Len(constructed) < MaxInstances
  /\ constructed' =
       Append(constructed, constructorMaxListeners(classMaxListeners))
  /\ ret' = "instance"
  /\ UNCHANGED <<events, order, maxListeners, maxListenersWarnedOnce,
                 warnings, stack, nextId, fired, classMaxListeners>>

\* The max-listener values: setMaxListeners on the instance, assignments to
\* the static defaultMaxListeners, and the construction of more instances;
\* a registration on the instance, which compares with the value.
DefaultKeys == {"a"}
DefaultListeners == {"f"}

NextDefault ==
  \/ \E n \in MaxInputs :
       /\ setMaxListeners(n)
       /\ LoggedNumber("setMaxListeners", n)
       /\ UNCHANGED <<classMaxListeners, constructed>>
  \/ \E n \in MaxInputs :
       setDefaultMaxListeners(n) /\ LoggedNumber("defaultMaxListeners", n)
  \/ construct /\ LoggedNumber("new", None)
  \/ \E k \in DefaultKeys, l \in DefaultListeners :
       addListener(k, l, "on") /\ Logged("on", k, l)

SpecDefault == Init /\ [][NextDefault]_vars

\* The instance used with the number 42 where a key is expected, while
\* listeners are registered under the string "42"; each call is logged.
NumberKeys == {"42"}
NumberArgs == {1}

NextNotKeys ==
  \/ \E k \in NumberKeys, l \in Callbacks :
       addListener(k, l, "on") /\ Logged("on", k, l)
  \/ \E k \in NumberKeys, l \in Callbacks :
       once(k, l) /\ Logged("once", k, l)
  \/ \E k \in NumberKeys \cup NotKeys, l \in Callbacks :
       removeListener(k, l) /\ Logged("removeListener", k, l)
  \/ \E k \in NumberKeys \cup {NoArgument} :
       removeAllListeners(k) /\ Logged("removeAllListeners", k, None)
  \/ \E k \in NumberKeys \cup NotKeys, a \in NumberArgs :
       Within(MaxDepth, k) /\ emit(k, a) /\ Logged("emit", k, None)
  \/ ListenerReturn /\ Logged("return", None, None)
  \/ ListenerThrow /\ Logged("throw", None, None)

SpecNotKeys == Init /\ [][NextNotKeys]_vars

\* The instance used on two symbols of the same description and on an
\* inherited name, by a program whose listeners register and remove
\* listeners, return or throw, but never call emit: one pass at a time.
\* Each call is logged.
PassKeys == {Sym, Sym2, "toString"}
PassListeners == {"f"}
PassArgs == {1}

NextPass ==
  \/ \E k \in PassKeys, l \in PassListeners :
       addListener(k, l, "on") /\ Logged("on", k, l)
  \/ \E k \in PassKeys, l \in PassListeners :
       once(k, l) /\ Logged("once", k, l)
  \/ \E k \in PassKeys, l \in PassListeners :
       removeListener(k, l) /\ Logged("removeListener", k, l)
  \/ \E k \in PassKeys \cup {NoArgument} :
       removeAllListeners(k) /\ Logged("removeAllListeners", k, None)
  \/ \E k \in PassKeys, a \in PassArgs :
       stack = <<>> /\ emit(k, a) /\ Logged("emit", k, None)
  \/ ListenerReturn /\ Logged("return", None, None)
  \/ ListenerThrow /\ Logged("throw", None, None)

SpecPass == Init /\ [][NextPass]_vars

\* ------------------------------------------------------------ observations

\* The live sequence of records of a key, and the identities in a sequence.
Live(ev, k) == Get(ev, k).recs
Ids(s) == {s[j].id : j \in 1..Len(s)}

\* The pass at depth d of the stack, and the record its listener now runs.
Running(d) == stack[d].live0[Len(stack[d].calls)]

\* emit(event, args) run to its end with listeners that call nothing and
\* return: what it leaves in this[events] and how it ends.
RECURSIVE Drain(_, _)
Drain(r, base) ==
  IF Len(r.stack) <= base THEN r
  ELSE Drain(forEachStep(r.events,
                         [r.stack EXCEPT ![Len(r.stack)].i = @ + 1],
                         r.fired), base)

QuietEmit(ev, event, args) ==
  IF Get(ev, event).tag # "array"
  THEN [events |-> ev, stack |-> <<>>, fired |-> fired, ret |-> "self"]
  ELSE Drain(forEachStep(ev, <<NewFrame(ev, event, args)>>, fired), 0)

\* The records of s that are persistent, in the order of s.
Persistent(s) == SelectSeq(s, LAMBDA r : r.type = "on")

\* ------------------------------------------------------------------ claims

\* A step of emit itself: a pass starts, goes on to its next entry, or ends.
PassStep == stack' # stack
PassStarts == Len(stack') > Len(stack)
PassEnds == Len(stack') < Len(stack)

\* C1: a record added to key k while a pass of k is running is not invoked
\* in that pass (every record a pass invokes was in the live sequence when
\* the pass started), and it is invoked by the next emit(k): a pass takes
\* the whole live sequence when it starts, and until then emit's own
\* removal of one-shot entries takes the added record out of the live
\* sequence only in the step that invokes it.
C1_AddedDuringPassFiresNext ==
  [][/\ \A d \in 1..Len(stack') :
          \A j \in 1..Len(stack'[d].calls) :
            stack'[d].calls[j].id \in Ids(stack'[d].live0)
     /\ PassStarts =>
          stack'[Len(stack')].snap = Live(events, stack'[Len(stack')].event)
     /\ PassStep =>
          \A d \in 1..Len(stack) :
            \A r \in Ids(Live(events, stack[d].event)) \ Ids(stack[d].live0) :
              r \notin Ids(Live(events', stack[d].event)) =>
                /\ ret' = "running"
                /\ stack'[Len(stack')].calls[Len(stack'[Len(stack')].calls)].id = r
    ]_vars

\* C1, the first half alone: no pass invokes a record that was not in the
\* live sequence of its key when the pass started.
C1_NotInRunningPass ==
  \A d \in 1..Len(stack) :
    \A j \in 1..Len(stack[d].calls) :
      stack[d].calls[j].id \in Ids(stack[d].live0)

\* C2: a one-shot record is invoked at most once, over any sequence of emit
\* calls, reentrant ones included.
C2_OnceFiresOnce ==
  \A id \in 1..MaxRegs : fired[id] <= 1

\* C3: after an emit(k) whose listeners call nothing, the live sequence of k
\* is the one before the emit with the one-shot records deleted and the
\* persistent ones kept in order.
C3_OnlyOneShotsRemoved ==
  \A k \in EmitKeys :
    Get(events, k).tag = "array" =>
      Live(QuietEmit(events, k, 1).events, k) = Persistent(Live(events, k))

\* C4: while the callback of a one-shot record runs, the record is not in
\* the live sequence of its key, so listenerCount does not count it, and no
\* pass of that key started from inside the callback holds it.
C4_OneShotGoneWhenRunning ==
  \A d \in 1..Len(stack) :
    Running(d).type = "once" =>
      /\ Running(d).id \notin Ids(Live(events, stack[d].event))
      /\ \A e \in (d + 1)..Len(stack) :
           stack[e].event = stack[d].event =>
             Running(d).id \notin Ids(stack[e].snap)

\* The pass that is innermost before the step, and after it.
Top == stack[Len(stack)]
NewTop == stack'[Len(stack')]
\* The pass ends in this step, and not by a listener of it throwing.
EndsUnthrown == PassEnds /\ ret' # "ListenerFailure"
\* The calls a pass has made are the first records of the live sequence it
\* started from, in order.
CallsFollow(fr) ==
  /\ Len(fr.calls) <= Len(fr.live0)
  /\ \A j \in 1..Len(fr.calls) : fr.calls[j].id = fr.live0[j].id

\* C5 on the passes of the keys K: a record of the snapshot that a listener
\* of the pass removed (it is no longer live) has been invoked when the pass
\* ends; a pass invokes the records that were live when it started, so a
\* removed record is in no later pass.
RemovedStillInvoked(K) ==
  /\ (EndsUnthrown /\ Top.event \in K) =>
       \A j \in 1..Len(Top.live0) :
         Top.live0[j].id \notin Ids(Live(events, Top.event)) =>
           j <= Len(Top.calls)
  /\ \A d \in 1..Len(stack') : CallsFollow(stack'[d])

\* C5: a record removed by an earlier listener of a pass is still invoked
\* in that pass, and no later pass invokes it: a later pass invokes the live
\* sequence of the time it starts.
C5_RemovedStillInvoked == [][RemovedStillInvoked(EmitKeys)]_vars

\* C5 for the keys that name no member of Object.prototype.
C5_OwnNames == [][RemovedStillInvoked(EmitKeys \ InheritedNames)]_vars

\* C6 on the passes of the keys K: a step leaves every pass but the
\* innermost as it is; a pass started by a listener takes the live sequence
\* of that moment and invokes all of it before it ends; and when a listener
\* returns, its pass either ends or goes on to the next entry of its own
\* snapshot.
Reentrant(K) ==
  /\ \A d \in 1..(Len(stack) - 1) : d <= Len(stack') /\ stack'[d] = stack[d]
  /\ (PassStarts /\ NewTop.event \in K) =>
       NewTop.snap = Live(events, NewTop.event)
  /\ (EndsUnthrown /\ Len(stack) >= 2 /\ Top.event \in K) =>
       Len(Top.calls) = Len(Top.live0)
  /\ (PassStep /\ Len(stack') = Len(stack)) =>
       /\ NewTop.snap = Top.snap
       /\ NewTop.i = Top.i + 1
       /\ Len(NewTop.calls) = NewTop.i
       /\ NewTop.calls[NewTop.i].id = Top.snap[NewTop.i].id

\* C6: emission is reentrant, whatever the inner pass adds, removes or
\* emits.
C6_Reentrant == [][Reentrant(EmitKeys)]_vars

\* C6 for the keys that name no member of Object.prototype.
C6_OwnNames == [][Reentrant(EmitKeys \ InheritedNames)]_vars

\* The records of a live sequence are in registration order.
InRegistrationOrder(s) ==
  \A i, j \in 1..Len(s) : i < j => s[i].id < s[j].id

\* C7 on the passes of the keys K: each call of a pass is the call of the
\* next record of the sequence emit found, with the arguments of emit; the
\* pass ends after the call of the last one; the sequence is in
\* registration order and listeners gives its callbacks in that order.
EachOnceInOrder(K) ==
  /\ \A d \in 1..Len(stack') :
       /\ CallsFollow(stack'[d])
       /\ \A j \in 1..Len(stack'[d].calls) :
            /\ stack'[d].calls[j].listener = stack'[d].live0[j].listener
            /\ stack'[d].calls[j].args = stack'[d].args
  /\ \A k \in K :
       Get(events', k).tag = "array" =>
         /\ InRegistrationOrder(Live(events', k))
         /\ Len(listeners(events', k)) = Len(Live(events', k))
         /\ \A j \in 1..Len(Live(events', k)) :
              listeners(events', k)[j] = Live(events', k)[j].listener
  /\ (EndsUnthrown /\ Top.event \in K) => Len(Top.calls) = Len(Top.live0)

\* C7: emit(k, args) invokes the callback of each of the n records of k
\* exactly once, in registration order, with args; listeners(k) gives the
\* callbacks in that order.
C7_EachOnceInOrder == [][EachOnceInOrder(EmitKeys)]_vars

\* C7 for the keys that name no member of Object.prototype.
C7_OwnNames == [][EachOnceInOrder(EmitKeys \ InheritedNames)]_vars

\* The step is the call of `op` with these arguments (SpecCalls logs calls).
Called(op, event, listener) ==
  last'.op = op /\ last'.event = event /\ last'.listener = listener

\* Some record of the sequence holds the callback.
Holds(s, cb) == \E i \in 1..Len(s) : s[i].listener = cb

\* addListener(k, cb) on the keys K: it returns this, listenerCount(k) grows
\* by one and listeners(k) is the old sequence with cb appended.
AddAppends(K) ==
  \A k \in K, cb \in Callbacks :
    (Called("on", k, cb) \/ Called("once", k, cb)) =>
      /\ ret' = "self"
      /\ listenerCount(events', k) = listenerCount(events, k) + 1
      /\ listeners(events', k) = Append(listeners(events, k), cb)

\* C8: for every valid key and every function cb, in every reachable state,
\* addListener(k, cb) returns the registry, makes listenerCount(k) one
\* larger and makes cb the last element of listeners(k), the earlier
\* elements unchanged.
C8_AddAppends == [][AddAppends(CallKeys)]_vars

\* C8 for the keys that name no member of Object.prototype.
C8_OwnNames == [][AddAppends(CallKeys \ InheritedNames)]_vars

\* C9: removeListener(k, cb), when a record of k holds cb, removes exactly
\* the first record in registration order that holds cb; every other record
\* of k, later ones with the same cb included, stays in its relative order;
\* listenerCount(k) goes down by one and the registry is returned.
C9_RemovesFirstMatch ==
  [][\A k \in CallKeys, cb \in Callbacks :
       (Called("removeListener", k, cb) /\ Holds(Live(events, k), cb)) =>
         LET old == Live(events, k)
             new == Live(events', k)
         IN  /\ ret' = "self"
             /\ listenerCount(events', k) = listenerCount(events, k) - 1
             /\ \E i \in 1..Len(old) :
                  /\ old[i].listener = cb
                  /\ \A j \in 1..(i - 1) : old[j].listener # cb
                  /\ Len(new) = Len(old) - 1
                  /\ \A j \in 1..Len(new) :
                       new[j] = IF j < i THEN old[j] ELSE old[j + 1]
    ]_vars

\* C9's case: removeListener(Sym, "f") was called with two records holding
\* "f" registered; the first is gone and the second is left.
C9_Witness ==
  /\ last.op = "removeListener"
  /\ last.event = Sym
  /\ last.listener = "f"
  /\ ret = "self"
  /\ nextId = 3
  /\ Get(events, Sym).tag = "array"
  /\ Len(Live(events, Sym)) = 1
  /\ Live(events, Sym)[1].id = 2
  /\ Live(events, Sym)[1].listener = "f"

\* removeListener(k, cb) on the keys K where it has nothing to remove: it
\* returns this and leaves every listener sequence, the max-listener value
\* and the warned state as they are.
RemoveIsNoOp(K) ==
  \A k \in K, cb \in ListenerArgs :
    (/\ Called("removeListener", k, cb)
     /\ (cb \notin Callbacks \/ ~Holds(Live(events, k), cb))) =>
      /\ ret' = "self"
      /\ \A k2 \in Keys : Live(events', k2) = Live(events, k2)
      /\ maxListeners' = maxListeners
      /\ maxListenersWarnedOnce' = maxListenersWarnedOnce

\* C10: removeListener(k, cb) is a no-op that returns the registry without
\* raising when k has no listeners, when cb is not a function, or when no
\* record of k holds cb.
C10_RemoveIsNoOp == [][RemoveIsNoOp(CallKeys)]_vars

\* C10 for the keys that name no member of Object.prototype.
C10_OwnNames == [][RemoveIsNoOp(CallKeys \ InheritedNames)]_vars

\* The elements of a sequence.
Range(s) == {s[i] : i \in 1..Len(s)}

\* eventNames() lists exactly the keys of K that have listeners.
NamesAreKeysWithListeners(K) ==
  \A k \in K :
    (k \in Range(eventNames(events, order))) <=> (listenerCount(events, k) > 0)

\* C11: in every reachable state eventNames() returns exactly the keys,
\* string keys and symbol keys alike, whose listener sequence is not empty
\* (stated for the keys that name no member of Object.prototype).
C11_NamesAreKeysWithListeners ==
  NamesAreKeysWithListeners(Keys \ InheritedNames)

\* C11 for the string keys alone.
C11_StringKeys ==
  NamesAreKeysWithListeners(Keys \ (Symbols \cup InheritedNames))

\* A registration on a key of K that has no listeners: the key comes last
\* in eventNames(), as a key registered for the first time does, and has
\* the one listener.
ClearedIsNew(K) ==
  \A k \in K, cb \in Callbacks :
    (/\ Called("on", k, cb) \/ Called("once", k, cb)
     /\ listenerCount(events, k) = 0) =>
      /\ eventNames(events', order') = Append(eventNames(events, order), k)
      /\ listenerCount(events', k) = 1
      /\ listeners(events', k) = <<cb>>

\* C12: a key whose listeners were all removed is indistinguishable from a
\* key that was never registered: registered again it takes the place in
\* eventNames() that a key registered for the first time takes (the last),
\* and listenerCount and listeners are those of a new key.
C12_ClearedIsNew == [][ClearedIsNew(NameKeys)]_vars

\* C12 without the order of eventNames(): a key without listeners has
\* listenerCount 0, no listeners and is not in eventNames(), whether its
\* listeners were removed or it was never registered.
C12_ClearedIsEmpty ==
  \A k \in NameKeys :
    events[k].tag \in {"absent", "undefined"} =>
      /\ listenerCount(events, k) = 0
      /\ listeners(events, k) = <<>>
      /\ k \notin Range(eventNames(events, order))

\* The keys the Warning Sink (log.warn) was invoked for.
WarnedKeys(w) == {w[i][1] : i \in 1..Len(w)}

\* A registration that leaves key k with more listeners than the
\* max-listener value.
RegistersBeyondMax(k) ==
  /\ \E cb \in Callbacks : Called("on", k, cb) \/ Called("once", k, cb)
  /\ ret' = "self"
  /\ listenerCount(events', k) > maxListeners.val

\* C13: the first addListener/once call that makes the listener count of a
\* key k exceed the max-listener value (k has caused no warning so far)
\* invokes the Warning Sink exactly once, for k and that count, also when
\* another key of the instance has caused a warning before.
C13_WarnsPerKey ==
  [][\A k \in NameKeys :
       (RegistersBeyondMax(k) /\ k \notin WarnedKeys(warnings)) =>
         warnings' = Append(warnings, <<k, listenerCount(events', k)>>)
    ]_vars

\* C13 for the first key of an instance that exceeds the max-listener
\* value: no warning was given before.
C13_FirstKeyWarns ==
  [][\A k \in NameKeys :
       (RegistersBeyondMax(k) /\ warnings = <<>>) =>
         warnings' = Append(warnings, <<k, listenerCount(events', k)>>)
    ]_vars

\* C14: the Warning Sink is invoked at most once for any key, and only by
\* a registration call after which the listener count of that key exceeds
\* the max-listener value of the instance.
C14_AtMostOncePerKey ==
  [][/\ \A i, j \in 1..Len(warnings') :
          warnings'[i][1] = warnings'[j][1] => i = j
     /\ warnings' # warnings =>
          \E k \in NameKeys :
            /\ RegistersBeyondMax(k)
            /\ warnings' = Append(warnings, <<k, listenerCount(events', k)>>)
    ]_vars

\* C14's case: key "a" caused a warning with its first listener, was
\* cleared and registered again, its count exceeding the max-listener value
\* once more, and the Warning Sink was not invoked a second time.
C14_Witness ==
  /\ warnings = << <<"a", 1>> >>
  /\ last.op \in {"on", "once"}
  /\ last.event = "a"
  /\ ret = "self"
  /\ nextId = 3
  /\ listenerCount(events, "a") = 1
  /\ Live(events, "a")[1].id = 2
  /\ maxListeners.val = 0

\* A number that is an integer and not below 0; one that is not below 0.
IsNonNegativeInteger(x) == ~x.nan /\ ~x.half /\ x.val >= 0
IsNonNegative(x) == ~x.nan /\ x.val >= 0

\* What the claim says is stored for an integer n, max(n, 0), and for an
\* input that is no number, 0; it names no other input.
StoredAsClaimed(n, stored) ==
  /\ (~n.nan /\ ~n.half) => stored = Num(IF n.val > 0 THEN n.val ELSE 0)
  /\ n.nan => stored = Num(0)

MaxWithZero(x) ==
  IF x.nan THEN Num(0)
  ELSE IF x.val < 0 THEN Num(0)
  ELSE x

C16_DefaultReadAtConstruction ==
  [][/\ last'.op = "new" =>
          /\ constructed' =
               Append(constructed, getDefaultMaxListeners(classMaxListeners))
          /\ ~classMaxListeners.assigned =>
               constructed'[Len(constructed')] = Num(10)
          /\ maxListeners' = maxListeners
     /\ last'.op = "defaultMaxListeners" =>
          /\ maxListeners' = maxListeners
          /\ constructed' = constructed
     /\ \A i \in 1..Len(constructed) :
          i <= Len(constructed') /\ constructed'[i] = constructed[i]
    ]_vars

\* C16's case: one instance was constructed before any assignment and has
\* 10, a second one after the assignment of 1 and has 1, and the default
\* has been assigned 0 since.
C16_Witness ==
  /\ constructed = <<Num(10), Num(1)>>
  /\ last.op = "defaultMaxListeners"
  /\ getDefaultMaxListeners(classMaxListeners) = Num(0)
  /\ maxListeners = Num(10)

\* C17: addListener and once called with a key that is neither a string
\* nor a symbol, or with a listener that is not a function, raise a
\* TypeError and leave the registry as it was: no key is created, no record
\* appended, the warned state and the max-listener value are unchanged and
\* the Warning Sink is not invoked.
C17_InvalidRegistrationRejected ==
  [][\A k \in NameKeys \cup NotKeys, l \in NameListeners :
       (/\ Called("on", k, l) \/ Called("once", k, l)
        /\ k \in NotKeys \/ l \notin Callbacks) =>
         /\ ret' = "TypeError"
         /\ events' = events
         /\ order' = order
         /\ nextId' = nextId
         /\ maxListenersWarnedOnce' = maxListenersWarnedOnce
         /\ maxListeners' = maxListeners
         /\ warnings' = warnings
    ]_vars

\* C17's case: with the max-listener value at 0, where any registration
\* would warn, addListener("a", {}) raised; no key exists and the Warning
\* Sink was not invoked.
C17_Witness ==
  /\ last.op = "on"
  /\ last.event = "a"
  /\ last.listener = NotAFunction
  /\ ret = "TypeError"
  /\ maxListeners.val = 0
  /\ warnings = <<>>
  /\ ~maxListenersWarnedOnce
  /\ order = <<>>
  /\ \A k \in Keys : events[k].tag = "absent"

\* C18: emit called with a key argument that is neither a string nor a
\* symbol raises a TypeError in every state, invokes no listener and
\* leaves the registry unchanged.
C18_EmitRejectsNotKeys ==
  [][\A x \in NotKeys :
       Called("emit", x, None) =>
         /\ ret' = "TypeError"
         /\ stack' = stack
         /\ fired' = fired
         /\ events' = events
    ]_vars

\* C20: listenerCount(x) is 0 and listeners(x) is empty for every argument
\* x that is no string and no symbol, whatever string keys have listeners.
C20_NotKeysHaveNone ==
  \A x \in NotKeys :
    /\ listenerCount(events, x) = 0
    /\ listeners(events, x) = <<>>

\* C20 while no listener is registered under the string the argument
\* converts to.
C20_UnlessNamed ==
  \A x \in NotKeys :
    events[ToPropertyKey(x)].tag # "array" =>
      /\ listenerCount(events, x) = 0
      /\ listeners(events, x) = <<>>

\* A pass of emit in which the first n listeners call nothing and return:
\* r is the pass with its first listener running.
RECURSIVE Advance(_, _)
Advance(r, n) ==
  IF n = 0 \/ r.stack = <<>> THEN r
  ELSE Advance(forEachStep(r.events,
                           [r.stack EXCEPT ![Len(r.stack)].i = @ + 1],
                           r.fired), n - 1)

\* this[events] after emit(event) in which the listeners call nothing, the
\* first t - 1 return and the t-th throws.
ThrowAt(ev, event, t) ==
  Advance(forEachStep(ev, <<NewFrame(ev, event, 1)>>, fired), t - 1).events

\* The sequence s without the one-shot records among its first t.
WithoutFiredOneShots(s, t) ==
  SelectSeq(s, LAMBDA r : ~(r.type = "once" /\ r.id \in {s[j].id : j \in 1..t}))

\* No two records of a sequence hold the same callback.
DistinctCallbacks(s) ==
  \A i, j \in 1..Len(s) : s[i].listener = s[j].listener => i = j

\* The step in which a listener throws, and what it leaves: its pass is
\* over, no further entry of it is invoked and the registry is as the
\* listener left it.
ThrowStep == PassEnds /\ ret' = "ListenerFailure"
ThrowAborts == ThrowStep => (stack' = Pop(stack) /\ events' = events)

\* After a pass over a key of K whose t-th listener throws, the one-shot
\* records that fired, the throwing one included, are removed and every
\* other record is registered in its order; a later emit starts from that
\* live sequence.
ThrowLeavesConsistent(K, ok(_)) ==
  \A k \in K :
    (Get(events, k).tag = "array" /\ ok(Live(events, k))) =>
      \A t \in 1..Len(Live(events, k)) :
        /\ Live(ThrowAt(events, k, t), k) =
             WithoutFiredOneShots(Live(events, k), t)
        /\ NewFrame(ThrowAt(events, k, t), k, 1).snap =
             Live(ThrowAt(events, k, t), k)

\* C19: when a listener throws during emit(k) the exception reaches the
\* caller of emit and the rest of the snapshot is not invoked; the one-shot
\* records that fired up to and including the throwing one are removed,
\* the records not yet reached are still registered, and a later emit(k)
\* invokes exactly the live sequence in order.
C19_ThrowLeavesConsistent ==
  [][ThrowAborts /\ ThrowLeavesConsistent(EmitKeys, LAMBDA s : TRUE)]_vars

\* C19 for the keys no two of whose records hold the same callback.
C19_DistinctCallbacks ==
  [][ThrowAborts /\ ThrowLeavesConsistent(EmitKeys, DistinctCallbacks)]_vars

\* removeAllListeners(k) leaves key k with listenerCount 0 and every other
\* key with its listeners; removeAllListeners() leaves every key of K with
\* listenerCount 0; both return this and leave the max-listener value.
RemoveAllClears(K) ==
  last'.op = "removeAllListeners" =>
    /\ ret' = "self"
    /\ maxListeners' = maxListeners
    /\ IF last'.event = NoArgument
       THEN \A k \in K : listenerCount(events', k) = 0
       ELSE /\ listenerCount(events', last'.event) = 0
            /\ \A k \in Keys \ {last'.event} :
                 Live(events', k) = Live(events, k)

\* C21: removeAllListeners(k) leaves listenerCount(k) = 0 and the listener
\* sequence of every other key unchanged; removeAllListeners() leaves
\* listenerCount = 0 for every key; both return the registry and neither
\* changes the max-listener value.
C21_RemoveAllClears == [][RemoveAllClears(Keys)]_vars

\* C21 with "every key" read as every key that names no member of
\* Object.prototype.
C21_OwnNames == [][RemoveAllClears(Keys \ InheritedNames)]_vars

\* emit(k) on a key of K on which no listener is registered invokes
\* nothing, changes nothing, raises nothing and returns this.
EmitWithoutListeners(K) ==
  \A k \in K :
    (Called("emit", k, None) /\ Len(Live(events, k)) = 0) =>
      /\ ret' = "self"
      /\ stack' = stack
      /\ fired' = fired
      /\ events' = events
      /\ order' = order
      /\ maxListeners' = maxListeners
      /\ maxListenersWarnedOnce' = maxListenersWarnedOnce
      /\ warnings' = warnings

\* C22: for every valid key k, any string whatever its text or any symbol,
\* on which no listener is registered, emit(k, args) invokes no callback,
\* changes no state, raises nothing and returns the registry.
C22_EmitWithoutListeners == [][EmitWithoutListeners(PassKeys)]_vars

\* C22 for the keys that name no member of Object.prototype.
C22_OwnNames == [][EmitWithoutListeners(PassKeys \ InheritedNames)]_vars

\* The stored entry of every key is absent, undefined or a sequence that
\* is not empty.
StoredNeverEmpty ==
  \A k \in Keys :
    \/ events[k].tag \in {"absent", "undefined"} /\ events[k].recs = <<>>
    \/ events[k].tag = "array" /\ Len(events[k].recs) > 0

\* listenerCount(k) is the length of listeners(k) and is above 0 exactly
\* when the key has a stored sequence, for the keys of K.
CountIsLength(K) ==
  \A k \in K :
    /\ listenerCount(events, k) = Len(listeners(events, k))
    /\ (listenerCount(events, k) > 0) <=> (events[k].tag = "array")

\* C23: in every reachable state, those a listener sees in the middle of
\* an emission included, the stored entry of each key is absent, undefined
\* or a non-empty sequence, never an empty one; hence listenerCount(k) is
\* the length of listeners(k) and is above 0 exactly when the key has a
\* stored sequence.
C23_NeverEmptySequence == StoredNeverEmpty /\ CountIsLength(Keys)

\* C23 for the keys that name no member of Object.prototype.
C23_OwnNames == StoredNeverEmpty /\ CountIsLength(Keys \ InheritedNames)

\* The key a step of emit works on: the key of the pass that starts or
\* goes on.
PassKey == IF PassStarts THEN NewTop.event ELSE Top.event

\* C24: addListener, once, removeListener and removeAllListeners(k) on a
\* key k change the stored sequence of no other key; a step of emit itself
\* changes at most the sequence of the emitted key; no record is in the
\* sequences of two keys, be they two symbols of the same description or a
\* symbol and a string.
C24_KeysIndependent ==
  [][/\ \A k \in PassKeys :
          (/\ last'.op \in {"on", "once", "removeListener",
                             "removeAllListeners"}
           /\ last'.event = k) =>
            \A k2 \in Keys \ {k} : events'[k2] = events[k2]
     /\ last'.op \in {"emit", "return", "throw"} =>
          IF PassStep
          THEN \A k2 \in Keys \ {ToPropertyKey(PassKey)} :
                 events'[k2] = events[k2]
          ELSE events' = events
     /\ \A k, k2 \in {x \in Keys : events'[x].tag = "array"} :
          k # k2 => Ids(Live(events', k)) \cap Ids(Live(events', k2)) = {}
    ]_vars

\* C24's case: the one listener of the symbol Sym was removed, and the two
\* listeners of Sym2, a symbol of the same description, are still there.
C24_Witness ==
  /\ last.op = "removeListener"
  /\ last.event = Sym
  /\ ret = "self"
  /\ events[Sym].tag = "undefined"
  /\ Len(Live(events, Sym2)) = 2

\* A pass over a key of K never makes more calls than the key had
\* listeners when emit was called, and when it ends, no listener having
\* thrown, it has made exactly that many.
ExactlyNCalls(K) ==
  /\ \A d \in 1..Len(stack') :
       Len(stack'[d].calls) <= Len(stack'[d].live0)
  /\ (EndsUnthrown /\ Top.event \in K) =>
       Len(Top.calls) = Len(Top.live0)

\* C25: an emit(k) call whose listeners add or remove listeners but do not
\* call emit terminates after exactly n callback invocations, n being
\* listenerCount(k) when emit was called, also when every invoked listener
\* registers a new listener on k.
C25_ExactlyNCalls == [][ExactlyNCalls(PassKeys)]_vars

\* C25 for the keys that name no member of Object.prototype.
C25_OwnNames == [][ExactlyNCalls(PassKeys \ InheritedNames)]_vars

====
